---- MODULE Spec2Model ----
(***************************************************************************)
(* Model of src/app.py: the identity normalizer (normalizar_df) and the    *)
(* three cached loaders (carregar_franquias, carregar_dados_franquia,      *)
(* carregar_todos_os_dados) over a document database.                      *)
(*                                                                         *)
(* A document is a sequence of key/value pairs (key order is the stored    *)
(* order).  A DataFrame is [cols, dtypes, rows]: the column labels, the    *)
(* dtype of each column and the rows, each row aligned with cols.  The     *)
(* row index of every frame built here is the default RangeIndex, so the   *)
(* position of a row in rows is its index label.                           *)
(***************************************************************************)
EXTENDS Integers, Sequences, FiniteSets, TLC

VARIABLES
    client,        \* TRUE when init_connection returned a client (db is not None)
    franquias,     \* db.franquias, in scan order
    organizacoes,  \* db.organizacoes
    individuos,    \* db.individuos
    veiculos,      \* db.veiculos
    comandantes,   \* db.comandantes
    dados_list,    \* the argument of a direct call of normalizar_df
    chamada,       \* the last call: [fn, arg, falha, erro]
    retorno        \* what the last call returned

vars == <<client, franquias, organizacoes, individuos, veiculos, comandantes,
          dados_list, chamada, retorno>>

-----------------------------------------------------------------------------
(* Values.  Every value is a record of one shape so that values of         *)
(* different Python types can be compared: t is the type, n the number of  *)
(* an int or of a float with zero fraction, s the text of a str or of an   *)
(* ObjectId.                                                               *)

IntV(n)   == [t |-> "int",   n |-> n, s |-> ""]
FloatV(n) == [t |-> "float", n |-> n, s |-> ""]
StrV(s)   == [t |-> "str",   n |-> 0, s |-> s]
OidV(s)   == [t |-> "oid",   n |-> 0, s |-> s]
NaN       == [t |-> "nan",   n |-> 0, s |-> ""]

Digit == <<"0", "1", "2", "3", "4", "5", "6", "7", "8", "9">>

RECURSIVE NatStr(_)
NatStr(n) == IF n < 10 THEN Digit[n + 1]
             ELSE NatStr(n \div 10) \o Digit[(n % 10) + 1]

\* str() of a Python int
IntStr(n) == IF n < 0 THEN "-" \o NatStr(-n) ELSE NatStr(n)

\* str(x), which is also what Series.astype(str) does to each element:
\* 7 -> "7", 7.0 -> "7.0", NaN -> "nan", ObjectId(h) -> h, a str unchanged.
pyStr(v) ==
    CASE v.t = "int"   -> IntStr(v.n)
      [] v.t = "float" -> IntStr(v.n) \o ".0"
      [] v.t = "nan"   -> "nan"
      [] OTHER         -> v.s

\* The largest number the digit strings of the model can spell.
MaxInt == 9

\* str.isdigit() and int() on the strings of the model
isdigit(s) == \E n \in 0..MaxInt : NatStr(n) = s
pyInt(s)   == CHOOSE n \in 0..MaxInt : NatStr(n) = s

-----------------------------------------------------------------------------
(* Sequences *)

Range(q) == {q[i] : i \in 1..Len(q)}

RECURSIVE Flatten(_)
Flatten(qq) == IF qq = <<>> THEN <<>> ELSE Head(qq) \o Flatten(Tail(qq))

RECURSIVE Dedupe(_)
\* first occurrences, in order
Dedupe(q) ==
    IF q = <<>> THEN <<>>
    ELSE LET r == Dedupe(SubSeq(q, 1, Len(q) - 1))
             x == q[Len(q)]
         IN  IF x \in Range(r) THEN r ELSE Append(r, x)

RECURSIVE SeqsUpTo(_, _)
\* the sequences over S of length at most n
SeqsUpTo(S, n) ==
    IF n = 0 THEN {<<>>}
    ELSE LET R == SeqsUpTo(S, n - 1)
         IN  R \cup {Append(q, x) : q \in {r \in R : Len(r) = n - 1}, x \in S}

\* those in which no element occurs twice
Distinct(S, n) == {q \in SeqsUpTo(S, n) : Cardinality(Range(q)) = Len(q)}

-----------------------------------------------------------------------------
(* Documents *)

Par(k, v) == [k |-> k, v |-> v]

Keys(doc) == [i \in 1..Len(doc) |-> doc[i].k]

HasKey(doc, k) == \E i \in 1..Len(doc) : doc[i].k = k

DocGet(doc, k) ==
    IF HasKey(doc, k) THEN doc[CHOOSE i \in 1..Len(doc) : doc[i].k = k].v
    ELSE NaN

\* find(filter, projection): the projected fields, in the stored order
Project(doc, ks) == SelectSeq(doc, LAMBDA p : p.k \in ks)

-----------------------------------------------------------------------------
(* DataFrames *)

EmptyDF == [cols |-> <<>>, dtypes |-> <<>>, rows |-> <<>>]

\* pd.DataFrame(columns=[...])
EmptyCols(cs) == [cols |-> cs, dtypes |-> [i \in 1..Len(cs) |-> "object"],
                  rows |-> <<>>]

\* DataFrame.empty: some axis has length 0
IsEmpty(df) == Len(df.rows) = 0 \/ Len(df.cols) = 0

HasCol(df, c) == c \in Range(df.cols)

ColIdx(df, c) == CHOOSE i \in 1..Len(df.cols) : df.cols[i] = c

Col(df, c) == [i \in 1..Len(df.rows) |-> df.rows[i][ColIdx(df, c)]]

ColDtype(df, c) == df.dtypes[ColIdx(df, c)]

\* dtype inference of a column of Python objects: all ints -> int64; ints,
\* floats and missing values -> float64; anything else -> object.
InferDtype(vals) ==
    IF Len(vals) > 0 /\ (\A i \in 1..Len(vals) : vals[i].t = "int") THEN "int64"
    ELSE IF \A i \in 1..Len(vals) : vals[i].t \in {"int", "float", "nan"}
         THEN "float64"
         ELSE "object"

\* the value as stored in a column of the dtype
Cast(v, dtype) == IF dtype = "float64" /\ v.t = "int" THEN FloatV(v.n) ELSE v

\* the field c of every document, NaN where a document has none
Campo(dados, c) == [i \in 1..Len(dados) |-> DocGet(dados[i], c)]

Frame(dados, cs, dts) ==
    [cols   |-> cs,
     dtypes |-> dts,
     rows   |-> [i \in 1..Len(dados) |->
                   [j \in 1..Len(cs) |-> Cast(DocGet(dados[i], cs[j]), dts[j])]]]

FrameCols(dados, cs) ==
    Frame(dados, cs, [j \in 1..Len(cs) |-> InferDtype(Campo(dados, cs[j]))])

\* pd.DataFrame(list of dicts): columns in order of first appearance, a
\* missing field is NaN, each column gets its inferred dtype.
DataFrame(dados) ==
    FrameCols(dados, Dedupe(Flatten([i \in 1..Len(dados) |-> Keys(dados[i])])))

\* DataFrame.to_dict('records')
Records(df) ==
    [i \in 1..Len(df.rows) |->
        [j \in 1..Len(df.cols) |-> Par(df.cols[j], df.rows[i][j])]]

\* a conversion by repr(): a str comes out quoted
AsTypeRepr(vals) ==
    [i \in 1..Len(vals) |->
        StrV(IF vals[i].t = "str" THEN "'" \o vals[i].s \o "'" ELSE pyStr(vals[i]))]

\* Series.astype(str) on a NumPy-backed column: every element becomes its
\* str(), a missing value the text "nan"
AsTypeStr(vals) == [i \in 1..Len(vals) |-> StrV(pyStr(vals[i]))]

\* df[c] = vals, vals positionally aligned with the rows: an existing
\* column is replaced in place, a new one is appended.
SetCol(df, c, vals, dtype) ==
    IF HasCol(df, c)
    THEN LET j == ColIdx(df, c)
         IN  [cols   |-> df.cols,
              dtypes |-> [df.dtypes EXCEPT ![j] = dtype],
              rows   |-> [i \in 1..Len(df.rows) |-> [df.rows[i] EXCEPT ![j] = vals[i]]]]
    ELSE [cols   |-> Append(df.cols, c),
          dtypes |-> Append(df.dtypes, dtype),
          rows   |-> [i \in 1..Len(df.rows) |-> Append(df.rows[i], vals[i])]]

\* df[c] = scalar
SetScalar(df, c, v) ==
    SetCol(df, c, [i \in 1..Len(df.rows) |-> v], "object")

\* df[c] = series, where series has a RangeIndex of its own: pandas aligns on
\* the index label, so row i takes series[i] and NaN if the series is shorter.
SetAligned(df, c, series, dtype) ==
    LET short == Len(series) < Len(df.rows)
        dt    == IF short /\ dtype = "int64" THEN "float64" ELSE dtype
    IN  SetCol(df, c,
               [i \in 1..Len(df.rows) |->
                   IF i <= Len(series) THEN Cast(series[i], dt) ELSE NaN],
               dt)

\* df[[c1, c2, ...]]
SelectCols(df, cs) ==
    [cols   |-> cs,
     dtypes |-> [j \in 1..Len(cs) |-> ColDtype(df, cs[j])],
     rows   |-> [i \in 1..Len(df.rows) |->
                   [j \in 1..Len(cs) |-> df.rows[i][ColIdx(df, cs[j])]]]]

\* The rows of the right frame whose key (column ri) equals key, in order.
Hits(key, right, ri) == SelectSeq(right.rows, LAMBDA r : r[ri] = key)

\* The dtypes of the right frame's columns in the result: an int64 column
\* becomes float64 when some left row has no match and NaN enters it.
MergeDtypes(left, right, li, ri) ==
    [j \in 1..Len(right.cols) |->
        IF /\ right.dtypes[j] = "int64"
           /\ \E i \in 1..Len(left.rows) : Hits(left.rows[i][li], right, ri) = <<>>
        THEN "float64"
        ELSE right.dtypes[j]]

\* The result rows of one left row: one per match, or one filled with NaN.
MergeRow(lrow, hits, rdts) ==
    IF hits = <<>> THEN <<lrow \o [j \in 1..Len(rdts) |-> NaN]>>
    ELSE [k \in 1..Len(hits) |->
            lrow \o [j \in 1..Len(rdts) |-> Cast(hits[k][j], rdts[j])]]

\* A label both frames have gets its side's suffix.
MergeLabels(cols, others, suf) ==
    [j \in 1..Len(cols) |-> IF cols[j] \in Range(others) THEN cols[j] \o suf ELSE cols[j]]

MergeOn(left, right, li, ri, lsuf, rsuf, rdts) ==
    [cols   |-> MergeLabels(left.cols, right.cols, lsuf)
                    \o MergeLabels(right.cols, left.cols, rsuf),
     dtypes |-> left.dtypes \o rdts,
     rows   |-> Flatten([i \in 1..Len(left.rows) |->
                   MergeRow(left.rows[i], Hits(left.rows[i][li], right, ri), rdts)])]

\* pd.merge(left, right, left_on=..., right_on=..., how='left',
\* suffixes=(lsuf, rsuf)) with two differently named key columns: every left
\* row, in order, once per right row whose key equals its key (in the right
\* frame's order), or once with NaN in the right columns when there is none.
Merge(left, right, left_on, right_on, lsuf, rsuf) ==
    MergeOn(left, right, ColIdx(left, left_on), ColIdx(right, right_on), lsuf, rsuf,
            MergeDtypes(left, right, ColIdx(left, left_on), ColIdx(right, right_on)))

-----------------------------------------------------------------------------
(* normalizar_df *)

\* lines 59-60
IdDeOid(df) ==
    IF ~HasCol(df, "id") /\ HasCol(df, "_id")
    THEN SetCol(df, "id", AsTypeStr(Col(df, "_id")), "object")
    ELSE df

\* lines 63-64
IdComoStr(df) ==
    IF HasCol(df, "id") THEN SetCol(df, "id", AsTypeStr(Col(df, "id")), "object")
    ELSE df

\* lines 51-66
normalizar_df(dados) ==
    IF dados = <<>> THEN EmptyDF ELSE IdComoStr(IdDeOid(DataFrame(dados)))

-----------------------------------------------------------------------------
(* Column labels.  TLC cannot look inside a string, so the test            *)
(* 'nome' in c of line 188 is decided over the labels the program can      *)
(* build: a field name or helper column, followed by the suffixes of at    *)
(* most two merges.                                                        *)

Campos == {"_id", "id", "nome", "id_franquia", "id_comandante", "id_individuo",
           "tipo_organizacao", "especie", "fabricante",
           "id_cmd_str", "id_str", "id_ind_final", "id_franquia_str",
           "comandante_nome", "nome_franquia"}

Sufixos == {"", "_cmd_info", "_nome_final", "_x", "_y"}

ContemNome(c) ==
    \E b \in Campos, s1 \in Sufixos, s2 \in Sufixos :
        /\ c = b \o s1 \o s2
        /\ \/ b \in {"nome", "comandante_nome", "nome_franquia"}
           \/ "_nome_final" \in {s1, s2}

-----------------------------------------------------------------------------------------------------------------------------------------------------
(* The body of a try block ends either by returning or by raising.  ret is *)
(* the value returned; when exc is TRUE it holds the values the local      *)
(* tables had when the exception left the block.                           *)

Tabelas(o, i, v) == [orgs |-> o, inds |-> i, veis |-> v, tabela |-> EmptyDF]
Tabela(df)       == [orgs |-> EmptyDF, inds |-> EmptyDF, veis |-> EmptyDF, tabela |-> df]

Return(r) == [exc |-> FALSE, ret |-> r]
Raise(r)  == [exc |-> TRUE,  ret |-> r]

\* lines 135, 199, 203, 225: three empty frames
Vazio == Tabelas(EmptyDF, EmptyDF, EmptyDF)

\* lines 116, 131: an empty frame with the columns id and nome
FranquiasVazio == Tabela(EmptyCols(<<"id", "nome">>))

\* an except branch that returns the tables as they were when the exception
\* was raised
TryExceptParcial(corpo, fallback) == corpo.ret

\* try: ... except Exception as e: st.error(...); return fallback
TryExcept(corpo, fallback) == IF corpo.exc THEN fallback ELSE corpo.ret

\* what a call did: erro says that the except branch ran (st.error was
\* called), ret is what the call returned
Resultado(corpo, fallback) == [erro |-> corpo.exc, ret |-> TryExcept(corpo, fallback)]

-----------------------------------------------------------------------------
(* carregar_dados_franquia *)

\* the values the $or filter of lines 139-143 compares id_franquia with
Filtro(franquia_id) ==
    {franquia_id,
     StrV(pyStr(franquia_id)),
     IntV(IF isdigit(pyStr(franquia_id)) THEN pyInt(pyStr(franquia_id)) ELSE -1)}

\* equality of a stored value and a query value in the document store:
\* numbers compare by value, everything else by type and value
MongoEq(a, b) ==
    IF a.t \in {"int", "float"} /\ b.t \in {"int", "float"} THEN a.n = b.n
    ELSE a = b

\* lines 145-147: collection.find(filtro)
Find(colecao, franquia_id) ==
    SelectSeq(colecao, LAMBDA d :
        /\ HasKey(d, "id_franquia")
        /\ \E f \in Filtro(franquia_id) : MongoEq(DocGet(d, "id_franquia"), f))

\* lines 182-192: [exc, veis]
EscolheNome(df_veis, final, cols_nome) ==
    [exc  |-> FALSE,
     veis |-> IF cols_nome # <<>>
              THEN SetAligned(df_veis, "comandante_nome",
                              Col(final, cols_nome[Len(cols_nome)]),
                              ColDtype(final, cols_nome[Len(cols_nome)]))
              ELSE SetScalar(df_veis, "comandante_nome", StrV("Desconhecido"))]

\* lines 182-188
NomeDoMerge(df_veis, final) ==
    EscolheNome(IF HasCol(final, "nome_nome_final")
                THEN SetAligned(df_veis, "comandante_nome", Col(final, "nome_nome_final"),
                                ColDtype(final, "nome_nome_final"))
                ELSE df_veis,
                final,
                SelectSeq(final.cols, LAMBDA c : ContemNome(c) /\ c # "nome"))

\* lines 177-179; df_todos_inds['id'] raises KeyError when there is no id
MergeIndividuo(df_veis, df_todos_inds) ==
    IF ~HasCol(df_todos_inds, "id") THEN [exc |-> TRUE, veis |-> df_veis]
    ELSE NomeDoMerge(df_veis,
                     Merge(df_veis,
                           SetCol(df_todos_inds, "id_str",
                                  AsTypeStr(Col(df_todos_inds, "id")), "object"),
                           "id_ind_final", "id_str", "", "_nome_final"))

\* lines 175-176, 193-194
IndividuoDoComandante(df_veis, col_id_ind, df_todos_inds) ==
    IF HasCol(df_veis, col_id_ind)
    THEN MergeIndividuo(SetCol(df_veis, "id_ind_final",
                               AsTypeStr(Col(df_veis, col_id_ind)), "object"),
                        df_todos_inds)
    ELSE [exc |-> FALSE, veis |-> SetScalar(df_veis, "comandante_nome", StrV("Desconhecido"))]

\* lines 168-172, df_cmd with its id_str column
MergeComandante(df_veis, df_cmd, df_todos_inds) ==
    IndividuoDoComandante(
        Merge(df_veis, df_cmd, "id_cmd_str", "id_str", "", "_cmd_info"),
        IF HasCol(df_cmd, "id_individuo") THEN "id_individuo" ELSE "id_individuo_cmd_info",
        df_todos_inds)

\* line 165; df_cmd['id'] raises KeyError when there is no id column
ChaveComandante(df_veis, df_cmd, df_todos_inds) ==
    IF ~HasCol(df_cmd, "id") THEN [exc |-> TRUE, veis |-> df_veis]
    ELSE MergeComandante(df_veis,
                         SetCol(df_cmd, "id_str", AsTypeStr(Col(df_cmd, "id")), "object"),
                         df_todos_inds)

\* lines 164-194, with df_cmd and df_todos_inds not empty.  The result is
\* [exc, veis]: df_veis at the end, or when a KeyError left the block.
JoinComandante(df_veis, df_cmd, df_todos_inds) ==
    ChaveComandante(
        SetCol(df_veis, "id_cmd_str",
               IF HasCol(df_veis, "id_comandante")
               THEN AsTypeStr(Col(df_veis, "id_comandante"))
               ELSE [i \in 1..Len(df_veis.rows) |-> StrV("")],
               "object"),
        df_cmd, df_todos_inds)

\* line 196, or the exception of a join on its way to line 197
FimDadosFranquia(df_orgs, df_inds, j) ==
    IF j.exc THEN Raise(Tabelas(df_orgs, df_inds, j.veis))
    ELSE Return(Tabelas(df_orgs, df_inds, j.veis))

\* lines 159-194
Auxiliares(df_orgs, df_inds, df_veis, df_cmd, df_todos_inds) ==
    IF IsEmpty(df_cmd) \/ IsEmpty(df_todos_inds)
    THEN Return(Tabelas(df_orgs, df_inds, df_veis))
    ELSE FimDadosFranquia(df_orgs, df_inds,
                          JoinComandante(df_veis, df_cmd, df_todos_inds))

\* lines 154-196
Joins(df_orgs, df_inds, df_veis, falha) ==
    IF IsEmpty(df_veis) THEN Return(Tabelas(df_orgs, df_inds, df_veis))
    ELSE IF falha \in {4, 5} THEN Raise(Tabelas(df_orgs, df_inds, df_veis))
    ELSE Auxiliares(df_orgs, df_inds, df_veis,
                    normalizar_df(comandantes),
                    normalizar_df([i \in 1..Len(individuos) |->
                                      Project(individuos[i], {"id", "nome", "_id"})]))

\* The scans of one call are numbered in the order the code makes them
\* (organizacoes, individuos, veiculos, comandantes, individuos); falha = k
\* says that the k-th scan raises, falha = 0 that none does.
\* lines 138-196
CorpoDadosFranquia(franquia_id, falha) ==
    IF falha \in {1, 2, 3} THEN Raise(Vazio)
    ELSE Joins(normalizar_df(Find(organizacoes, franquia_id)),
               normalizar_df(Find(individuos, franquia_id)),
               normalizar_df(Find(veiculos, franquia_id)),
               falha)

\* lines 134-199
carregar_dados_franquia(franquia_id, falha) ==
    IF ~client THEN [erro |-> FALSE, ret |-> Vazio]
    ELSE Resultado(CorpoDadosFranquia(franquia_id, falha), Vazio)

-----------------------------------------------------------------------------
(* carregar_todos_os_dados *)

\* line 220; temp['nome'] raises KeyError when the merge renamed it
AtribuiNomeFranquia(df, temp) ==
    IF ~HasCol(temp, "nome") THEN [exc |-> TRUE, df |-> df]
    ELSE [exc |-> FALSE,
          df  |-> SetAligned(df, "nome_franquia", Col(temp, "nome"), ColDtype(temp, "nome"))]

\* line 219; df_franquias[['id_str', 'nome']] raises KeyError without nome
MergeFranquia(df, df_franquias) ==
    IF ~HasCol(df_franquias, "nome") THEN [exc |-> TRUE, df |-> df]
    ELSE AtribuiNomeFranquia(df,
             Merge(df, SelectCols(df_franquias, <<"id_str", "nome">>),
                   "id_franquia_str", "id_str", "_x", "_y"))

\* The body of the loop of lines 216-220 for one table: [exc, df].
NomeFranquia(df, df_franquias) ==
    IF IsEmpty(df) \/ ~HasCol(df, "id_franquia") THEN [exc |-> FALSE, df |-> df]
    ELSE MergeFranquia(SetCol(df, "id_franquia_str",
                              AsTypeStr(Col(df, "id_franquia")), "object"),
                       df_franquias)

\* the loop of line 216 stops at the first table that raises
FimTodosOsDados(o, i, v, df_inds, df_veis) ==
    IF o.exc THEN Raise(Tabelas(o.df, df_inds, df_veis))
    ELSE IF i.exc THEN Raise(Tabelas(o.df, i.df, df_veis))
    ELSE IF v.exc THEN Raise(Tabelas(o.df, i.df, v.df))
    ELSE Return(Tabelas(o.df, i.df, v.df))

\* lines 215-222, df_franquias with its id_str column
LoopTodosOsDados(df_franquias, df_orgs, df_inds, df_veis) ==
    FimTodosOsDados(NomeFranquia(df_orgs, df_franquias),
                    NomeFranquia(df_inds, df_franquias),
                    NomeFranquia(df_veis, df_franquias),
                    df_inds, df_veis)

\* lines 205-222 on the four normalized tables.  The scans are numbered
\* franquias, organizacoes, individuos, veiculos, each normalized as soon as
\* it is read, so a table read after the failing scan is not bound yet.
TabelasTodosOsDados(df_franquias, df_orgs, df_inds, df_veis, falha) ==
    IF falha = 2 THEN Raise(Vazio)
    ELSE IF falha = 3 THEN Raise(Tabelas(df_orgs, EmptyDF, EmptyDF))
    ELSE IF falha = 4 THEN Raise(Tabelas(df_orgs, df_inds, EmptyDF))
    ELSE IF IsEmpty(df_franquias) THEN Return(Tabelas(df_orgs, df_inds, df_veis))
    ELSE IF ~HasCol(df_franquias, "id") THEN Raise(Tabelas(df_orgs, df_inds, df_veis))
    ELSE LoopTodosOsDados(SetCol(df_franquias, "id_str",
                                 AsTypeStr(Col(df_franquias, "id")), "object"),
                          df_orgs, df_inds, df_veis)

CorpoTodosOsDados(falha) ==
    IF falha = 1 THEN Raise(Vazio)
    ELSE TabelasTodosOsDados(normalizar_df(franquias), normalizar_df(organizacoes),
                             normalizar_df(individuos), normalizar_df(veiculos), falha)

\* lines 202-225
carregar_todos_os_dados(falha) ==
    IF ~client THEN [erro |-> FALSE, ret |-> Vazio]
    ELSE Resultado(CorpoTodosOsDados(falha), Vazio)

-----------------------------------------------------------------------------
(* carregar_franquias *)

\* The texts of the model in Python's str order.
Ordem == <<"Alpha", "Ana", "Beta", "Bia", "Sem Nome">>

Rank(s) == CHOOSE i \in 1..Len(Ordem) : Ordem[i] = s

\* a < b for two values of a column being sorted
Menor(a, b) ==
    IF a.t = "str" /\ b.t = "str" THEN Rank(a.s) < Rank(b.s) ELSE a.n < b.n

\* sorting compares the values that are not missing: it raises TypeError
\* when a str meets a number
Comparaveis(vals) ==
    \A i, j \in 1..Len(vals) :
        (vals[i].t # "nan" /\ vals[j].t # "nan") =>
            ((vals[i].t = "str") <=> (vals[j].t = "str"))

RECURSIVE InsertSorted(_, _, _)
\* row goes after every row that is not greater (NaN last)
InsertSorted(row, sorted, j) ==
    IF sorted = <<>> THEN <<row>>
    ELSE IF row[j].t # "nan" /\ (Head(sorted)[j].t = "nan" \/ Menor(row[j], Head(sorted)[j]))
         THEN <<row>> \o sorted
         ELSE <<Head(sorted)>> \o InsertSorted(row, Tail(sorted), j)

RECURSIVE SortRows(_, _)
SortRows(rows, j) ==
    IF rows = <<>> THEN <<>>
    ELSE InsertSorted(rows[Len(rows)], SortRows(SubSeq(rows, 1, Len(rows) - 1), j), j)

\* df.sort_values(c): a stable ascending sort, missing values last
SortValues(df, c) == [df EXCEPT !.rows = SortRows(df.rows, ColIdx(df, c))]

\* line 128
SelecionaOrdena(df) ==
    IF ~Comparaveis(Col(df, "nome")) THEN Raise(Tabela(df))
    ELSE Return(Tabela(SortValues(SelectCols(df, <<"id", "nome">>), "nome")))

\* line 126
IdDoIndice(df) ==
    IF ~HasCol(df, "id")
    THEN SetCol(df, "id", [i \in 1..Len(df.rows) |-> StrV(IntStr(i - 1))], "object")
    ELSE df

\* line 125
NomePadrao(df) ==
    IF ~HasCol(df, "nome") THEN SetScalar(df, "nome", StrV("Sem Nome")) ELSE df

\* lines 122-128
TabelaFranquias(df) ==
    IF IsEmpty(df) THEN Return(FranquiasVazio)
    ELSE SelecionaOrdena(IdDoIndice(NomePadrao(df)))

\* lines 118-128
CorpoFranquias(falha) ==
    IF falha = 1 THEN Raise(Tabela(EmptyDF))
    ELSE TabelaFranquias(normalizar_df(
             [i \in 1..Len(franquias) |-> Project(franquias[i], {"nome", "id", "_id"})]))

\* lines 115-131
carregar_franquias(falha) ==
    IF ~client THEN [erro |-> FALSE, ret |-> FranquiasVazio]
    ELSE Resultado(CorpoFranquias(falha), FranquiasVazio)

-----
(* The documents the collections are filled from. *)

Doc3(k1, v1, k2, v2, k3, v3) == <<Par(k1, v1), Par(k2, v2), Par(k3, v3)>>

FranquiaDocs ==
    { Doc3("_id", OidV("f1"), "id", IntV(7), "nome", StrV("Alpha")),
      Doc3("_id", OidV("f2"), "id", StrV("F2"), "nome", StrV("Beta")),
      <<Par("_id", OidV("f3")), Par("id", StrV("7"))>> }

OrganizacaoDocs ==
    { Doc3("_id", OidV("o1"), "id", StrV("O1"), "id_franquia", IntV(7))
          \o <<Par("tipo_organizacao", StrV("ONG"))>>,
      Doc3("_id", OidV("o2"), "id", StrV("O2"), "id_franquia", StrV("7")),
      Doc3("_id", OidV("o3"), "id", StrV("O3"), "id_franquia", IntV(-1)),
      Doc3("_id", OidV("o4"), "id", StrV("O4"), "id_franquia", StrV("F2")) }

IndividuoDocs ==
    { Doc3("_id", OidV("i1"), "id", StrV("I9"), "id_franquia", IntV(7))
          \o <<Par("nome", StrV("Ana"))>>,
      Doc3("_id", OidV("i2"), "id", StrV("I9"), "id_franquia", StrV("7"))
          \o <<Par("nome", StrV("Bia"))>>,
      Doc3("_id", OidV("i3"), "id", IntV(9), "id_franquia", StrV("F2")) }

VeiculoDocs ==
    { Doc3("_id", OidV("v1"), "id", StrV("V1"), "id_franquia", IntV(7))
          \o <<Par("id_comandante", StrV("C1")), Par("fabricante", StrV("Kuat"))>>,
      Doc3("_id", OidV("v2"), "id", StrV("V2"), "id_franquia", StrV("7"))
          \o <<Par("id_comandante", IntV(1))>>,
      Doc3("_id", OidV("v3"), "id", StrV("V3"), "id_franquia", IntV(7)) }

ComandanteDocs ==
    { Doc3("_id", OidV("c1"), "id", StrV("C1"), "id_individuo", StrV("I9")),
      Doc3("_id", OidV("c2"), "id", StrV("C1"), "id_individuo", IntV(9)),
      <<Par("_id", OidV("c3")), Par("id", IntV(1))>> }

\* the arguments carregar_dados_franquia is called with
FranquiaIds == {IntV(7), StrV("7"), StrV("F2"), StrV("abc")}

\* the lists normalizar_df is called on are results of find(), so every
\* document carries its _id; id and nome are each present or absent
NormDocs ==
    { SelectSeq(Doc3("_id", a, "id", b, "nome", c), LAMBDA p : p.v # NaN) :
        a \in {OidV("a1"), OidV("a2")},
        b \in {NaN, IntV(1), StrV("1"), StrV("x")},
        c \in {NaN, StrV("Ana")} }

\* the most documents the database holds, over all collections; a document
\* is stored once (its _id is unique in its collection)
MaxDocs == 4

\* the most documents in an argument of normalizar_df
MaxLen == 2

-----------------------------------------------------------------------------
(* The state machine. *)

NoCall == [fn |-> "", arg |-> NaN, falha |-> 0, erro |-> FALSE]

Init ==
    /\ client \in BOOLEAN
    /\ franquias \in (IF client THEN Distinct(FranquiaDocs, MaxDocs) ELSE {<<>>})
    /\ organizacoes \in (IF client
                         THEN Distinct(OrganizacaoDocs, MaxDocs - Len(franquias))
                         ELSE {<<>>})
    /\ individuos \in (IF client
                       THEN Distinct(IndividuoDocs,
                                     MaxDocs - Len(franquias) - Len(organizacoes))
                       ELSE {<<>>})
    /\ veiculos \in (IF client
                     THEN Distinct(VeiculoDocs,
                                   MaxDocs - Len(franquias) - Len(organizacoes)
                                           - Len(individuos))
                     ELSE {<<>>})
    /\ comandantes \in (IF client
                        THEN Distinct(ComandanteDocs,
                                      MaxDocs - Len(franquias) - Len(organizacoes)
                                              - Len(individuos) - Len(veiculos))
                        ELSE {<<>>})
    /\ dados_list = <<>>
    /\ chamada = NoCall
    /\ retorno = Vazio

db == <<client, franquias, organizacoes, individuos, veiculos, comandantes>>

\* No loader writes to the database, so what a call returns depends on the
\* database and on the call alone: a behaviour is one call on one database.

Registra(fn, arg, falha, r) ==
    /\ chamada' = [fn |-> fn, arg |-> arg, falha |-> falha, erro |-> r.erro]
    /\ retorno' = r.ret
    /\ UNCHANGED <<db, dados_list>>

CarregarFranquias ==
    \E falha \in 0..1 :
        /\ chamada = NoCall
        /\ Registra("carregar_franquias", NaN, falha, carregar_franquias(falha))

CarregarDadosFranquia ==
    \E franquia_id \in FranquiaIds, falha \in 0..5 :
        /\ chamada = NoCall
        /\ Registra("carregar_dados_franquia", franquia_id, falha,
                    carregar_dados_franquia(franquia_id, falha))

CarregarTodosOsDados ==
    \E falha \in 0..4 :
        /\ chamada = NoCall
        /\ Registra("carregar_todos_os_dados", NaN, falha, carregar_todos_os_dados(falha))

Next == CarregarFranquias \/ CarregarDadosFranquia \/ CarregarTodosOsDados

Spec == Init /\ [][Next]_vars

\* normalizar_df called on its own
InitNorm ==
    /\ client = FALSE
    /\ franquias = <<>> /\ organizacoes = <<>> /\ individuos = <<>>
    /\ veiculos = <<>> /\ comandantes = <<>>
    /\ dados_list \in SeqsUpTo(NormDocs, MaxLen)
    /\ chamada = NoCall
    /\ retorno = Vazio

Normalizar ==
    /\ chamada' = [fn |-> "normalizar_df", arg |-> NaN, falha |-> 0, erro |-> FALSE]
    /\ retorno' = Tabela(normalizar_df(dados_list))
    /\ UNCHANGED <<db, dados_list>>

\* normalizar_df called on the records of the table the last call returned
Renormalizar ==
    /\ chamada.fn = "normalizar_df"
    /\ dados_list' = Records(retorno.tabela)
    /\ chamada' = [fn |-> "normalizar_df", arg |-> NaN, falha |-> 0, erro |-> FALSE]
    /\ retorno' = Tabela(normalizar_df(dados_list'))
    /\ UNCHANGED db

NextNorm == Normalizar \/ Renormalizar

SpecNorm == InitNorm /\ [][NextNorm]_vars

-----------------------------------------------------------------------------
(* What the properties below speak of. *)

\* the stringified id of a stored record: its id, or without one its _id
IdTexto(d) ==
    IF HasKey(d, "id") THEN pyStr(DocGet(d, "id")) ELSE pyStr(DocGet(d, "_id"))

\* every row of df that shows the record d shows v in column c, and there is
\* such a row
LinhaTem(df, d, c, v) ==
    /\ HasCol(df, "_id")
    /\ HasCol(df, c)
    /\ \E i \in 1..Len(df.rows) : df.rows[i][ColIdx(df, "_id")] = DocGet(d, "_id")
    /\ \A i \in 1..Len(df.rows) :
           df.rows[i][ColIdx(df, "_id")] = DocGet(d, "_id")
               => df.rows[i][ColIdx(df, c)] = v

\* the _id column of a returned table
Oids(df) == IF HasCol(df, "_id") THEN Col(df, "_id") ELSE <<>>

\* a call of carregar_dados_franquia with a database handle and no failing scan
ChamadaDados ==
    chamada.fn = "carregar_dados_franquia" /\ client /\ chamada.falha = 0

\* a call of carregar_todos_os_dados with a database handle and no failing scan
ChamadaTodos ==
    chamada.fn = "carregar_todos_os_dados" /\ client /\ chamada.falha = 0

\* the vehicles the call loaded
Carregados == Find(veiculos, chamada.arg)

\* the commanders a vehicle names, and the individuals a commander names
ComandantesDe(d) ==
    {k \in 1..Len(comandantes) :
        /\ HasKey(d, "id_comandante")
        /\ IdTexto(comandantes[k]) = pyStr(DocGet(d, "id_comandante"))}

IndividuosDe(c) ==
    {k \in 1..Len(individuos) :
        /\ HasKey(c, "id_individuo")
        /\ IdTexto(individuos[k]) = pyStr(DocGet(c, "id_individuo"))}

\* C1: after carregar_dados_franquia, a loaded vehicle whose id_comandante
\* names exactly one commander, whose id_individuo names exactly one
\* individual, shows that individual's nome as comandante_nome.
C1_NomeDoIndividuo ==
    ChamadaDados =>
        \A d \in Range(Carregados) : \A kc \in ComandantesDe(d) :
            \A ki \in IndividuosDe(comandantes[kc]) :
                ( /\ Cardinality(ComandantesDe(d)) = 1
                  /\ Cardinality(IndividuosDe(comandantes[kc])) = 1
                  /\ HasKey(individuos[ki], "nome") )
                => LinhaTem(retorno.veis, d, "comandante_nome",
                            DocGet(individuos[ki], "nome"))

\* the chain vehicle -> commander -> individual has every link
CadeiaCompleta(d) ==
    \E kc \in ComandantesDe(d) : IndividuosDe(comandantes[kc]) # {}

\* C2: after carregar_dados_franquia on a database with commanders and
\* individuals, a loaded vehicle with a missing link in vehicle -> commander
\* -> individual shows "Desconhecido" as comandante_nome.
C2_ElosFaltando ==
    (ChamadaDados /\ comandantes # <<>> /\ individuos # <<>>) =>
        \A d \in Range(Carregados) :
            ~CadeiaCompleta(d)
                => LinhaTem(retorno.veis, d, "comandante_nome", StrV("Desconhecido"))

\* C3: after carregar_dados_franquia has loaded a vehicle from a database
\* without commanders or without individuals, nothing was raised and every
\* vehicle row shows "Desconhecido" as comandante_nome.
C3_SemAuxiliares ==
    (ChamadaDados /\ Carregados # <<>> /\ (comandantes = <<>> \/ individuos = <<>>)) =>
        /\ ~chamada.erro
        /\ \A d \in Range(Carregados) :
               LinhaTem(retorno.veis, d, "comandante_nome", StrV("Desconhecido"))

\* the stored key v is the key V itself, its string form, or, when the
\* string form is all digits, its integer form
TriForma(v, V) ==
    \/ v = V
    \/ v = StrV(pyStr(V))
    \/ isdigit(pyStr(V)) /\ v = IntV(pyInt(pyStr(V)))

Esperados(colecao, V) ==
    {DocGet(d, "_id") : d \in {e \in Range(colecao) :
        HasKey(e, "id_franquia") /\ TriForma(DocGet(e, "id_franquia"), V)}}

\* C4: carregar_dados_franquia(V) loads exactly the organizations,
\* individuals and vehicles whose id_franquia is V, the string form of V or,
\* when that is all digits, the integer form of V; nothing is raised.
C4_TriForma ==
    ChamadaDados =>
        /\ ~chamada.erro
        /\ Range(Oids(retorno.orgs)) = Esperados(organizacoes, chamada.arg)
        /\ Range(Oids(retorno.inds)) = Esperados(individuos, chamada.arg)
        /\ Range(Oids(retorno.veis)) = Esperados(veiculos, chamada.arg)

\* C5: normalizar_df of a non-empty list gives every record a string id: the
\* string form of its own id, else of its own _id, else its row index.
C5_IdPorRegistro ==
    (chamada.fn = "normalizar_df" /\ dados_list # <<>>) =>
        /\ HasCol(retorno.tabela, "id")
        /\ Len(retorno.tabela.rows) = Len(dados_list)
        /\ \A i \in 1..Len(dados_list) :
               retorno.tabela.rows[i][ColIdx(retorno.tabela, "id")] =
                   StrV(IF HasKey(dados_list[i], "id") THEN pyStr(DocGet(dados_list[i], "id"))
                        ELSE IF HasKey(dados_list[i], "_id")
                             THEN pyStr(DocGet(dados_list[i], "_id"))
                             ELSE IntStr(i - 1))

\* the franchises a record's id_franquia names
FranquiasDe(d) ==
    {k \in 1..Len(franquias) : IdTexto(franquias[k]) = pyStr(DocGet(d, "id_franquia"))}

\* every record of the collection that has an id_franquia shows, in the
\* returned table, the nome of the one franchise it names, and NaN when it
\* names none
NomesDeFranquia(colecao, df) ==
    \A d \in Range(colecao) :
        HasKey(d, "id_franquia") =>
            /\ FranquiasDe(d) = {} => LinhaTem(df, d, "nome_franquia", NaN)
            /\ \A k \in FranquiasDe(d) :
                   Cardinality(FranquiasDe(d)) = 1
                       => LinhaTem(df, d, "nome_franquia", DocGet(franquias[k], "nome"))

\* C6: after carregar_todos_os_dados on a database with franchises, each of
\* which has a nome, every row of organizations, individuals and vehicles
\* that has an id_franquia shows the nome of its franchise as nome_franquia,
\* NaN without a franchise.
C6_NomeFranquia ==
    (ChamadaTodos /\ franquias # <<>> /\ \A f \in Range(franquias) : HasKey(f, "nome")) =>
        /\ NomesDeFranquia(organizacoes, retorno.orgs)
        /\ NomesDeFranquia(individuos, retorno.inds)
        /\ NomesDeFranquia(veiculos, retorno.veis)

\* the comandante_nome values df shows for the record d
NomesDoComandante(df, d) ==
    {df.rows[i][ColIdx(df, "comandante_nome")] :
        i \in {j \in 1..Len(df.rows) : df.rows[j][ColIdx(df, "_id")] = DocGet(d, "_id")}}

\* C7: after carregar_todos_os_dados on a database with vehicles, every
\* vehicle row has a comandante_nome, the one carregar_dados_franquia gives
\* that vehicle.
C7_ComandanteEmTodos ==
    (ChamadaTodos /\ veiculos # <<>>) =>
        /\ HasCol(retorno.veis, "comandante_nome")
        /\ HasCol(retorno.veis, "_id")
        /\ \A d \in Range(veiculos) :
               /\ NomesDoComandante(retorno.veis, d) # {}
               /\ HasKey(d, "id_franquia") =>
                      LET um == carregar_dados_franquia(DocGet(d, "id_franquia"), 0).ret.veis
                      IN  /\ HasCol(um, "comandante_nome")
                          /\ NomesDoComandante(retorno.veis, d) = NomesDoComandante(um, d)

\* the scan that falha names is one the call makes
ScanFalhou ==
    \/ chamada.fn = "carregar_franquias" /\ chamada.falha = 1
    \/ chamada.fn = "carregar_dados_franquia" /\ chamada.falha \in 1..3
    \/ chamada.fn = "carregar_dados_franquia" /\ chamada.falha \in 4..5
           /\ Carregados # <<>>
    \/ chamada.fn = "carregar_todos_os_dados" /\ chamada.falha \in 1..4

\* C8: a loader called without a database handle, or in which a scan or a
\* join step raised, returns its empty fallback: three empty tables, or for
\* carregar_franquias an empty table with the columns id and nome.
C8_Contencao ==
    (chamada.fn \in {"carregar_franquias", "carregar_dados_franquia",
                     "carregar_todos_os_dados"}
        /\ (~client \/ ScanFalhou \/ chamada.erro)) =>
        retorno = IF chamada.fn = "carregar_franquias" THEN FranquiasVazio ELSE Vazio

\* C8 happens: every franchise has a nome and no scan failed, so the loop
\* of carregar_todos_os_dados gave the organizations their nome_franquia,
\* and then a join step raised on a later table.
C8_Witness ==
    /\ chamada.fn = "carregar_todos_os_dados"
    /\ client
    /\ chamada.falha = 0
    /\ chamada.erro
    /\ \A f \in Range(franquias) : HasKey(f, "nome")
    /\ \E d \in Range(organizacoes) : HasKey(d, "id_franquia")

\* C9: normalizar_df applied to the records of the table it returned gives
\* that table again.
C9_Idempotente == [][Renormalizar => retorno' = retorno]_vars

\* C9 happens: the argument is the records of a normalized table of two
\* rows in which a field was missing, and the call returned that table.
C9_Witness ==
    /\ chamada.fn = "normalizar_df"
    /\ Len(dados_list) = 2
    /\ dados_list = Records(retorno.tabela)
    /\ HasCol(retorno.tabela, "id")
    /\ \E i \in 1..2 : \E j \in 1..Len(dados_list[i]) : dados_list[i][j].v = NaN

\* what a vehicle's own link can give its row: nothing, the sentinel, or the
\* nome or the id of an individual its commander names
Proprio(d) ==
    {NaN, StrV("Desconhecido")} \cup
    UNION {{DocGet(individuos[ki], "nome"), StrV(IdTexto(individuos[ki]))} :
             ki \in UNION {IndividuosDe(comandantes[kc]) : kc \in ComandantesDe(d)}}

\* C10: the vehicles table carregar_dados_franquia returns has one row per
\* loaded vehicle, in scan order, and a row's comandante_nome comes from
\* that vehicle's own commander link.
C10_UmaLinhaPorVeiculo ==
    ChamadaDados =>
        /\ Oids(retorno.veis) = [i \in 1..Len(Carregados) |-> DocGet(Carregados[i], "_id")]
        /\ HasCol(retorno.veis, "comandante_nome") =>
               \A i \in 1..Len(Carregados) :
                   retorno.veis.rows[i][ColIdx(retorno.veis, "comandante_nome")]
                       \in Proprio(Carregados[i])

====
